---- MODULE Spec2Model ----
(***************************************************************************)
(* Model of VoiceEventBot (src/main.py): the job table kept in the         *)
(* APScheduler scheduler, sync_voice_events that rebuilds it from the      *)
(* guild's scheduled events, and start_voice_event, the coroutine a job    *)
(* (or the start_event command) runs, with end_conflicting_voice_events.   *)
(* Every await on the platform (event.end(), event.start()) is a           *)
(* suspension point: the call is issued in one step and returns in         *)
(* another, and other coroutines run in between.                           *)
(***************************************************************************)
EXTENDS Integers, Sequences, FiniteSets, Bags, TLC

\* ---- bounds of the model ----
NumEvents == 2
MaxTime == 60
TickSeconds == 30
MaxCommands == 2
MaxRemote == 1
MaxInFlight == 2

\* ---- program constants ----
FallbackSeconds == 60

EventIds == 1..NumEvents
NoChannel == 0

VARIABLES
    guild,      \* TRUE when get_guild(guild_id) finds the guild
    events,     \* guild.scheduled_events: id -> the event's fields
    now,        \* datetime.now(timezone.utc)
    jobs,       \* the scheduler's job store: a set of jobs
    inv,        \* the start_voice_event coroutines in flight: a bag of their
                \* positions and locals
    last,       \* the operation that produced this state, with its result
    hist,       \* what the syncs so far did, for the claims that span two syncs
    used        \* how many commands (syncs, others) and platform changes have
                \* happened

vars == <<guild, events, now, jobs, inv, last, hist, used>>

\* ------------------------------------------------------------------
\* The guild's events
\* ------------------------------------------------------------------

\* The guild's events when the bot connects: event 1 is a voice event of
\* channel 1, event 2 a stage event of the same channel or an external event,
\* both scheduled or already active; any further event is a scheduled voice
\* event of channel 2.
Profiles(e) ==
    IF e = 1 THEN [entity_type : {"voice"}, channel : {1}, start_time : {30},
                   status : {"scheduled", "active"}, present : {TRUE}]
    ELSE IF e = 2 THEN
        [entity_type : {"stage_instance"}, channel : {1}, start_time : {0},
         status : {"scheduled", "active"}, present : {TRUE}]
        \cup [entity_type : {"external"}, channel : {NoChannel}, start_time : {0},
              status : {"scheduled", "active"}, present : {TRUE}]
    ELSE [entity_type : {"voice"}, channel : {2}, start_time : {60},
          status : {"scheduled"}, present : {TRUE}]

\* guild.scheduled_events: the events in the guild's cache, as a list.
RECURSIVE IdsFrom(_)
IdsFrom(e) ==
    IF e > NumEvents THEN <<>>
    ELSE IF events[e].present THEN <<e>> \o IdsFrom(e + 1) ELSE IdsFrom(e + 1)

scheduled_events == IdsFrom(1)

IsVoiceOrStage(e) == events[e].entity_type \in {"voice", "stage_instance"}

\* Mutant: the status test of get_voice_events left out.
IsEligible_any_status(e) == IsVoiceOrStage(e)

\* The filter of get_voice_events on one event.
IsEligible(e) == events[e].status = "scheduled" /\ IsVoiceOrStage(e)

RECURSIVE FilterEligible(_)
FilterEligible(evs) ==
    IF evs = <<>> THEN <<>>
    ELSE IF IsEligible(Head(evs)) THEN <<Head(evs)>> \o FilterEligible(Tail(evs))
    ELSE FilterEligible(Tail(evs))

get_voice_events == IF ~guild THEN <<>> ELSE FilterEligible(scheduled_events)

\* ------------------------------------------------------------------
\* The job store
\* ------------------------------------------------------------------

JobId(e) == <<"event", e>>

\* Mutant: sync_voice_events does not clear the job store.
remove_all_jobs_noop(table) == table

remove_all_jobs(table) == {}

\* scheduler.add_job(..., id=..., replace_existing=True)
add_job(table, e, run_date) ==
    {j \in table : j.id # JobId(e)}
        \cup {[id |-> JobId(e), args |-> e, run_date |-> run_date]}

\* Mutant: the comparison with now reversed.
RunDate_reversed(e, t) ==
    IF events[e].start_time >= t THEN t + FallbackSeconds ELSE events[e].start_time

\* Mutant: a past-due event is scheduled for now, without the delay.
RunDate_no_delay(e, t) ==
    IF events[e].start_time <= t THEN t ELSE events[e].start_time

\* The run date sync_voice_events gives an event's job.
RunDate(e, t) ==
    IF events[e].start_time <= t THEN t + FallbackSeconds ELSE events[e].start_time

\* Mutant: past-due events are skipped (as an earlier revision did).
RECURSIVE SyncLoop_skip_past(_, _, _, _, _)
SyncLoop_skip_past(table, count, evs, t, fails) ==
    IF evs = <<>> THEN [table |-> table, count |-> count]
    ELSE IF Head(evs) \in fails \/ events[Head(evs)].start_time <= t
         THEN SyncLoop_skip_past(table, count, Tail(evs), t, fails)
         ELSE SyncLoop_skip_past(add_job(table, Head(evs), RunDate(Head(evs), t)),
                                 count + 1, Tail(evs), t, fails)

\* Mutant: the try is around the loop, so the first add_job that raises ends it.
RECURSIVE SyncLoop_abort(_, _, _, _, _)
SyncLoop_abort(table, count, evs, t, fails) ==
    IF evs = <<>> \/ Head(evs) \in fails THEN [table |-> table, count |-> count]
    ELSE SyncLoop_abort(add_job(table, Head(evs), RunDate(Head(evs), t)),
                        count + 1, Tail(evs), t, fails)

\* The loop of sync_voice_events; fails are the events whose add_job raises.
RECURSIVE SyncLoop(_, _, _, _, _)
SyncLoop(table, count, evs, t, fails) ==
    IF evs = <<>> THEN [table |-> table, count |-> count]
    ELSE IF Head(evs) \in fails
         THEN SyncLoop(table, count, Tail(evs), t, fails)
         ELSE SyncLoop(add_job(table, Head(evs), RunDate(Head(evs), t)),
                       count + 1, Tail(evs), t, fails)

\* Mutant: jobs are only added, under fresh ids: nothing is cleared or replaced.
SyncResult_append(table, t, fails) ==
    LET r == SyncLoop({}, 0, get_voice_events, t, fails) IN
    [table |-> table \cup {[j EXCEPT !.id = <<"job", t, j.args>>] : j \in r.table},
     count |-> r.count]

\* Mutant: the count returned is the number of events fetched.
SyncResult_count_fetched(table, t, fails) ==
    [table |-> SyncLoop(remove_all_jobs(table), 0, get_voice_events, t, fails).table,
     count |-> IF guild THEN Len(scheduled_events) ELSE 0]

SyncResult(table, t, fails) ==
    SyncLoop(remove_all_jobs(table), 0, get_voice_events, t, fails)

JobIds(table) == {j.args : j \in table}

\* ------------------------------------------------------------------
\* State
\* ------------------------------------------------------------------

Idle == [pc |-> "idle", id |-> 0, origin |-> "none", channel |-> NoChannel,
         todo |-> <<>>, cur |-> 0, calls |-> <<>>]

\* No next run time: bot_status_command shows no "Next Event" field.
NoTime == -1

NoOp(name) == [op |-> name, id |-> 0, origin |-> "none", outcome |-> "none",
               count |-> 0, failed |-> {}, reply |-> "none",
               next_run_time |-> NoTime]

Init ==
    /\ guild = TRUE
    /\ events \in [EventIds -> UNION {Profiles(e) : e \in EventIds}]
    /\ \A e \in EventIds : events[e] \in Profiles(e)
    /\ now = 0
    /\ jobs = {}
    /\ inv = EmptyBag
    /\ last = NoOp("init")
    /\ hist = [fresh |-> FALSE, consecutive |-> FALSE, stale |-> {}]
    /\ used = [syncs |-> 0, manuals |-> 0, remotes |-> 0]

\* ------------------------------------------------------------------
\* sync_voice_events
\* ------------------------------------------------------------------

HasCommand == used.syncs + used.manuals < MaxCommands

\* Mutant: a sync also cancels the coroutines in flight.
Sync_cancels(fails) ==
    LET r == SyncResult(jobs, now, fails) IN
    /\ HasCommand
    /\ used' = [used EXCEPT !.syncs = @ + 1]
    /\ jobs' = r.table
    /\ inv' = EmptyBag
    /\ last' = [NoOp("sync") EXCEPT !.count = r.count, !.failed = fails]
    /\ hist' = [fresh |-> TRUE, consecutive |-> hist.fresh,
                stale |-> {e \in hist.stale \cup JobIds(jobs) :
                              ~(guild /\ events[e].present /\ IsEligible(e))}]
    /\ UNCHANGED <<guild, events, now>>

\* fails: the events for which add_job raises during this sync.
Sync(fails) ==
    LET r == SyncResult(jobs, now, fails) IN
    /\ HasCommand
    /\ used' = [used EXCEPT !.syncs = @ + 1]
    /\ jobs' = r.table
    /\ last' = [NoOp("sync") EXCEPT !.count = r.count, !.failed = fails]
    /\ hist' = [fresh |-> TRUE, consecutive |-> hist.fresh,
                stale |-> {e \in hist.stale \cup JobIds(jobs) :
                              ~(guild /\ events[e].present /\ IsEligible(e))}]
    /\ UNCHANGED <<guild, events, now, inv>>

sync_voice_events == Sync({})

\* A sync during which add_job raises for one of the events it schedules.
sync_with_failure ==
    \E e \in EventIds : guild /\ events[e].present /\ IsEligible(e) /\ Sync({e})

Tick ==
    /\ now + TickSeconds <= MaxTime
    /\ \A j \in jobs : j.run_date > now
    /\ now' = now + TickSeconds
    /\ last' = NoOp("other")
    /\ UNCHANGED <<guild, events, jobs, inv, hist, used>>

\* ------------------------------------------------------------------
\* The platform: users and the platform change the guild's events
\* ------------------------------------------------------------------

Disturb == [hist EXCEPT !.fresh = FALSE]

Remote == /\ used.remotes < MaxRemote
          /\ used' = [used EXCEPT !.remotes = @ + 1]
          /\ last' = NoOp("other")
          /\ hist' = Disturb

\* A user starts, cancels or ends an event from the platform's own UI.
RemoteUpdate(e, s) ==
    /\ Remote
    /\ events[e].present
    /\ <<events[e].status, s>> \in {<<"scheduled", "active">>,
                                    <<"scheduled", "canceled">>,
                                    <<"active", "completed">>}
    /\ events' = [events EXCEPT ![e].status = s]
    /\ UNCHANGED <<guild, now, jobs, inv>>

RemoteDelete(e) ==
    /\ Remote
    /\ events[e].present
    /\ events' = [events EXCEPT ![e].present = FALSE]
    /\ UNCHANGED <<guild, now, jobs, inv>>

\* The bot leaves or rejoins the guild: get_guild finds it or not.
GuildChange ==
    /\ Remote
    /\ guild' = ~guild
    /\ UNCHANGED <<events, now, jobs, inv>>

\* ------------------------------------------------------------------
\* start_voice_event and end_conflicting_voice_events
\* ------------------------------------------------------------------

InFlight == BagToSet(inv)

HasRoom == BagCardinality(inv) < MaxInFlight
Spawn(e, origin) ==
    inv (+) SetToBag({[Idle EXCEPT !.pc = "begin", !.id = e, !.origin = origin]})

\* The scheduler runs a due job: the one-shot job leaves the job store and its
\* coroutine is handed to the event loop.
Fire(j) ==
    /\ j \in jobs
    /\ j.run_date <= now
    /\ HasRoom
    /\ jobs' = jobs \ {j}
    /\ inv' = Spawn(j.args, "job")
    /\ last' = NoOp("other")
    /\ hist' = Disturb
    /\ UNCHANGED <<guild, events, now, used>>

\* int(event_id) on the text a user typed: the decimal value of a non-empty
\* string of digits, ValueError on the other texts used here.
Digits == <<"0", "1", "2", "3", "4", "5", "6", "7", "8", "9">>

IsDigit(ch) == \E i \in 1..Len(Digits) : Digits[i] = ch

DigitValue(ch) == (CHOOSE i \in 1..Len(Digits) : Digits[i] = ch) - 1

RECURSIVE DecimalValue(_, _)
DecimalValue(text, acc) ==
    IF text = <<>> THEN acc
    ELSE DecimalValue(Tail(text), acc * 10 + DigitValue(Head(text)))

int(text) ==
    IF text # <<>> /\ \A i \in 1..Len(text) : IsDigit(text[i])
    THEN [ok |-> TRUE, value |-> DecimalValue(text, 0)]
    ELSE [ok |-> FALSE, value |-> 0]

\* The texts users give as event_id: the ids of the guild's events, and texts
\* that are not integers.
IdTexts == {<<Digits[e + 1]>> : e \in EventIds}

BadTexts == {<<>>, <<"x">>, <<"1", "x">>}

\* start_event_command, up to its call of start_voice_event, or, when
\* int(event_id) raises ValueError, to its reply.
start_event_command(text) ==
    /\ HasCommand
    /\ used' = [used EXCEPT !.manuals = @ + 1]
    /\ IF int(text).ok
       THEN /\ HasRoom
            /\ inv' = Spawn(int(text).value, "manual")
            /\ last' = NoOp("other")
       ELSE /\ inv' = inv
            /\ last' = [NoOp("start_event_command") EXCEPT
                            !.reply = "Invalid event ID format"]
    /\ UNCHANGED <<guild, events, now, jobs, hist>>

\* Mutant: max in place of min.
NextRunTime_latest(table) ==
    CHOOSE t \in {j.run_date : j \in table} : \A j \in table : t >= j.run_date

\* min(jobs, key=lambda j: j.next_run_time).next_run_time
NextRunTime(table) ==
    CHOOSE t \in {j.run_date : j \in table} : \A j \in table : t <= j.run_date

\* bot_status_command: the number of jobs and, when there is one, the next run
\* time.
bot_status_command ==
    /\ HasCommand
    /\ used' = [used EXCEPT !.manuals = @ + 1]
    /\ last' = [NoOp("bot_status") EXCEPT
                    !.count = Cardinality(jobs),
                    !.next_run_time = IF jobs # {} THEN NextRunTime(jobs)
                                      ELSE NoTime]
    /\ UNCHANGED <<guild, events, now, jobs, inv, hist>>

\* The test of the loop of end_conflicting_voice_events on one event.
IsConflict(e, ch) ==
    /\ events[e].status = "active"
    /\ IsVoiceOrStage(e)
    /\ events[e].channel # NoChannel
    /\ events[e].channel = ch

RECURSIVE SkipToConflict(_, _)
SkipToConflict(todo, ch) ==
    IF todo = <<>> THEN <<>>
    ELSE IF IsConflict(Head(todo), ch) THEN todo
    ELSE SkipToConflict(Tail(todo), ch)

\* The call of event.start() at the end of start_voice_event.
CallStart(rec) ==
    [rec EXCEPT !.pc = "starting", !.todo = <<>>, !.cur = 0,
                !.calls = Append(@, <<"start", rec.id>>)]

\* The loop of end_conflicting_voice_events from the events still to visit, up
\* to its next await of event.end(); when the loop is over, start_voice_event
\* goes on to event.start().
ConflictLoop(rec, todo) ==
    LET rest == SkipToConflict(todo, rec.channel) IN
    IF rest = <<>> THEN CallStart(rec)
    ELSE [rec EXCEPT !.pc = "ending", !.cur = Head(rest), !.todo = Tail(rest),
                     !.calls = Append(@, <<"end", Head(rest)>>)]

end_conflicting_voice_events(rec) ==
    IF ~guild THEN CallStart(rec) ELSE ConflictLoop(rec, scheduled_events)

\* Mutant: event.start() is called before the conflicts are resolved.
start_voice_event_start_first(rec) ==
    IF ~guild \/ ~events[rec.id].present
    THEN [rec EXCEPT !.pc = "SkippedNotFound"]
    ELSE IF events[rec.id].status = "active"
    THEN [rec EXCEPT !.pc = "SkippedAlreadyActive"]
    ELSE IF events[rec.id].channel # NoChannel
    THEN end_conflicting_voice_events(
             [rec EXCEPT !.channel = events[rec.id].channel,
                         !.calls = Append(@, <<"start", rec.id>>)])
    ELSE CallStart(rec)

\* Mutant: the event looked up is used without the test that it was found.
start_voice_event_no_found_test(rec) ==
    IF ~guild
    THEN [rec EXCEPT !.pc = "SkippedNotFound"]
    ELSE IF events[rec.id].status = "active"
    THEN [rec EXCEPT !.pc = "SkippedAlreadyActive"]
    ELSE IF events[rec.id].channel # NoChannel
    THEN end_conflicting_voice_events([rec EXCEPT !.channel = events[rec.id].channel])
    ELSE CallStart(rec)

\* Mutant: the test that the event is already active left out.
start_voice_event_no_active_test(rec) ==
    IF ~guild \/ ~events[rec.id].present
    THEN [rec EXCEPT !.pc = "SkippedNotFound"]
    ELSE IF events[rec.id].channel # NoChannel
    THEN end_conflicting_voice_events([rec EXCEPT !.channel = events[rec.id].channel])
    ELSE CallStart(rec)

\* start_voice_event from its entry to its first await, or to its return.
start_voice_event(rec) ==
    IF ~guild \/ ~events[rec.id].present
    THEN [rec EXCEPT !.pc = "SkippedNotFound"]
    ELSE IF events[rec.id].status = "active"
    THEN [rec EXCEPT !.pc = "SkippedAlreadyActive"]
    ELSE IF events[rec.id].channel # NoChannel
    THEN end_conflicting_voice_events([rec EXCEPT !.channel = events[rec.id].channel])
    ELSE CallStart(rec)

Running(rec) == rec.pc \in {"begin", "ending", "starting"}

\* What start_event_command sends after start_voice_event has returned: the
\* same message whatever start_voice_event did.
start_event_reply(rec) ==
    IF rec.origin = "manual" THEN "Started event" ELSE "none"

\* One step of the coroutine old took it to rec: it is suspended at an await,
\* or it has returned.
Step(name, old, rec) ==
    /\ inv' = (inv (-) SetToBag({old}))
                (+) (IF Running(rec) THEN SetToBag({rec}) ELSE EmptyBag)
    /\ last' = IF Running(rec) THEN NoOp("other")
                ELSE [NoOp(name) EXCEPT !.id = rec.id, !.origin = rec.origin,
                                        !.outcome = rec.pc,
                                        !.reply = start_event_reply(rec)]

Begin(c) ==
    /\ c.pc = "begin"
    /\ Step("begin", c, start_voice_event(c))
    /\ UNCHANGED <<guild, events, now, jobs, hist, used>>

CallResults == {"ok", "Forbidden", "HTTPException", "Exception"}

\* The platform accepts ending an event that is active, starting one that is
\* scheduled.
CanSucceed(e, from) == events[e].present /\ events[e].status = from

StartOutcome(result) ==
    CASE result = "ok" -> "Started"
      [] result = "Forbidden" -> "FailedPermission"
      [] result = "HTTPException" -> "FailedRemote"
      [] OTHER -> "FailedUnexpected"

\* Mutant: event.end() is awaited without a try of its own, so what it raises
\* leaves the loop and is caught by start_voice_event, which logs and returns.
EndReturns_abort(c, result) ==
    /\ c.pc = "ending"
    /\ result = "ok" => CanSucceed(c.cur, "active")
    /\ events' = IF result = "ok"
                 THEN [events EXCEPT ![c.cur].status = "completed"]
                 ELSE events
    /\ Step("end_returned", c,
            IF result = "ok" THEN ConflictLoop(c, c.todo)'
            ELSE [c EXCEPT !.pc = StartOutcome(result)])
    /\ hist' = IF result = "ok" THEN Disturb ELSE hist
    /\ UNCHANGED <<guild, now, jobs, used>>

\* await event.end() returns or raises; either way the loop goes on, reading
\* the events as they are now.
EndReturns(c, result) ==
    /\ c.pc = "ending"
    /\ result = "ok" => CanSucceed(c.cur, "active")
    /\ events' = IF result = "ok"
                 THEN [events EXCEPT ![c.cur].status = "completed"]
                 ELSE events
    /\ Step("end_returned", c, ConflictLoop(c, c.todo)')
    /\ hist' = IF result = "ok" THEN Disturb ELSE hist
    /\ UNCHANGED <<guild, now, jobs, used>>

\* Mutant: a failed start is retried: a new job for the event is added.
StartReturns_retry(c, result) ==
    /\ c.pc = "starting"
    /\ result = "ok" => CanSucceed(c.id, "scheduled")
    /\ events' = IF result = "ok"
                 THEN [events EXCEPT ![c.id].status = "active"]
                 ELSE events
    /\ Step("start_returned", c, [c EXCEPT !.pc = StartOutcome(result)])
    /\ hist' = IF result = "ok" THEN Disturb ELSE hist
    /\ jobs' = IF result = "ok" THEN jobs
               ELSE add_job(jobs, c.id, now + FallbackSeconds)
    /\ UNCHANGED <<guild, now, used>>

\* await event.start() returns or raises; start_voice_event logs and returns.
StartReturns(c, result) ==
    /\ c.pc = "starting"
    /\ result = "ok" => CanSucceed(c.id, "scheduled")
    /\ events' = IF result = "ok"
                 THEN [events EXCEPT ![c.id].status = "active"]
                 ELSE events
    /\ Step("start_returned", c, [c EXCEPT !.pc = StartOutcome(result)])
    /\ hist' = IF result = "ok" THEN Disturb ELSE hist
    /\ UNCHANGED <<guild, now, jobs, used>>

Next ==
    \/ sync_voice_events
    \/ Tick
    \/ \E e \in EventIds, s \in {"active", "canceled", "completed"} : RemoteUpdate(e, s)
    \/ \E e \in EventIds : RemoteDelete(e)
    \/ GuildChange
    \/ \E j \in jobs : Fire(j)
    \/ \E text \in IdTexts : start_event_command(text)
    \/ \E c \in InFlight : Begin(c)
    \/ \E c \in InFlight, r \in CallResults : EndReturns(c, r)
    \/ \E c \in InFlight, r \in CallResults : StartReturns(c, r)

Spec == Init /\ [][Next]_vars

\* The same system when add_job may raise.
NextFault == Next \/ sync_with_failure

SpecFault == Init /\ [][NextFault]_vars

\* The event loop runs every coroutine that is ready, and every call awaited on
\* the platform returns or raises in the end.
Fairness ==
    /\ WF_vars(\E c \in InFlight : Begin(c))
    /\ WF_vars(\E c \in InFlight, r \in CallResults : EndReturns(c, r))
    /\ WF_vars(\E c \in InFlight, r \in CallResults : StartReturns(c, r))

SpecFair == Spec /\ Fairness

\* The voice and stage events that are active in a channel.
ActiveIn(ch) ==
    {e \in EventIds : /\ events[e].present
                      /\ events[e].status = "active"
                      /\ IsVoiceOrStage(e)
                      /\ events[e].channel = ch}

Channels == {events[e].channel : e \in EventIds} \ {NoChannel}

OneActivePerChannel == \A ch \in Channels : Cardinality(ActiveIn(ch)) <= 1

\* The bot alone on a guild that has at most one active event per channel when
\* it connects: nobody else changes the events, and event.end() never raises.
InitAlone == Init /\ OneActivePerChannel

NextAlone ==
    \/ sync_voice_events
    \/ Tick
    \/ \E j \in jobs : Fire(j)
    \/ \E text \in IdTexts : start_event_command(text)
    \/ \E c \in InFlight : Begin(c)
    \/ \E c \in InFlight : EndReturns(c, "ok")
    \/ \E c \in InFlight, r \in CallResults : StartReturns(c, r)

SpecAlone == InitAlone /\ [][NextAlone]_vars

\* sync_voice_events run again and again, by on_ready at every reconnection and
\* by the sync_events command, without a bound on how often.
resync ==
    LET r == SyncResult(jobs, now, {}) IN
    /\ jobs' = r.table
    /\ last' = [NoOp("sync") EXCEPT !.count = r.count]
    /\ hist' = [fresh |-> TRUE, consecutive |-> hist.fresh,
                stale |-> {e \in hist.stale \cup JobIds(jobs) :
                              ~(guild /\ events[e].present /\ IsEligible(e))}]
    /\ UNCHANGED <<guild, events, now, inv, used>>

Max(a, b) == IF a >= b THEN a ELSE b

\* Time passes without a bound. The times of the state are kept relative to
\* now, so that the states stay finitely many: instead of raising now, every
\* start time and run date is lowered by the seconds that pass; a start time
\* already in the past stays in the past.
TickRelative ==
    /\ \A j \in jobs : j.run_date > now
    /\ events' = [e \in EventIds |->
                     [events[e] EXCEPT !.start_time =
                                          Max(@ - TickSeconds, now - TickSeconds)]]
    /\ jobs' = {[j EXCEPT !.run_date = @ - TickSeconds] : j \in jobs}
    /\ last' = NoOp("other")
    /\ UNCHANGED <<guild, now, inv, hist, used>>

NextLive ==
    \/ resync
    \/ TickRelative
    \/ \E e \in EventIds, s \in {"active", "canceled", "completed"} : RemoteUpdate(e, s)
    \/ \E e \in EventIds : RemoteDelete(e)
    \/ GuildChange
    \/ \E j \in jobs : Fire(j)
    \/ \E c \in InFlight : Begin(c)
    \/ \E c \in InFlight, r \in CallResults : EndReturns(c, r)
    \/ \E c \in InFlight, r \in CallResults : StartReturns(c, r)

\* Time passes, the scheduler runs a job that is due again and again (a sync
\* cannot always come first), and the coroutines run as in Fairness; nothing
\* is assumed of how often a sync runs.
SpecLive ==
    /\ Init
    /\ [][NextLive]_vars
    /\ WF_vars(TickRelative)
    /\ SF_vars(\E j \in jobs : Fire(j))
    /\ Fairness

\* The same system with the rest of the command surface: start_event given a
\* text that is not an integer, and bot_status.
NextCommands ==
    \/ Next
    \/ \E text \in BadTexts : start_event_command(text)
    \/ bot_status_command

SpecCommands == Init /\ [][NextCommands]_vars

\* ------------------------------------------------------------------
\* Properties
\* ------------------------------------------------------------------

\* An event the event source lists, eligible as the specification defines it:
\* status Scheduled and entity type Voice or StageInstance.
Listed(e) == guild /\ events[e].present

EligibleEvent(e) ==
    /\ Listed(e)
    /\ events[e].status = "scheduled"
    /\ events[e].entity_type \in {"voice", "stage_instance"}

JobsFor(table, e) == {j \in table : j.args = e}

\* A state right after sync_voice_events returned: guild, events and now are
\* what that sync read.
AfterSync == last.op = "sync"

\* C1: after sync() returns, every eligible event whose startTime is strictly
\* after the now that sync read has exactly one job, and its fireTime is the
\* event's startTime.
C1_FutureEventScheduledAtStart ==
    AfterSync =>
        \A e \in EventIds :
            (EligibleEvent(e) /\ events[e].start_time > now) =>
                /\ Cardinality(JobsFor(jobs, e)) = 1
                /\ \A j \in JobsFor(jobs, e) : j.run_date = events[e].start_time

C1_Witness ==
    /\ AfterSync
    /\ \E e \in EventIds :
          /\ EligibleEvent(e)
          /\ events[e].start_time > now
          /\ JobsFor(jobs, e) # {}

\* C2: after sync() returns, every eligible event whose startTime is at or
\* before the now that sync read (equal included) has a job whose fireTime is
\* strictly after now and at most now + 60 seconds.
C2_PastDueEventWithinGrace ==
    AfterSync =>
        \A e \in EventIds :
            (EligibleEvent(e) /\ events[e].start_time <= now) =>
                \E j \in JobsFor(jobs, e) : j.run_date > now /\ j.run_date <= now + 60

C2_Witness ==
    /\ AfterSync
    /\ \E e \in EventIds :
          /\ EligibleEvent(e)
          /\ events[e].start_time = now
          /\ JobsFor(jobs, e) # {}
    /\ \E e \in EventIds :
          /\ EligibleEvent(e)
          /\ events[e].start_time < now
          /\ JobsFor(jobs, e) # {}

\* C3: a job enters the job table only in a sync, and every job the table holds
\* when a sync returns is for an event that was eligible in the snapshot that
\* sync read; no other operation (fire, manual start, platform change) adds one.
C3_NoJobForNonEligible ==
    [][/\ last'.op = "sync" =>
            \A j \in jobs' : j.args \in EventIds /\ EligibleEvent(j.args)
       /\ last'.op # "sync" => jobs' \subseteq jobs]_vars

C3_Witness ==
    /\ AfterSync
    /\ jobs # {}
    /\ \E e \in EventIds : Listed(e) /\ ~EligibleEvent(e)

\* C4: in every reachable state the job table holds at most one job per event
\* identifier.
C4_OneJobPerEvent ==
    \A j, k \in jobs : (j.args = k.args \/ j.id = k.id) => j = k

\* A second sync at the same instant as the first, nothing having changed: every
\* job is upserted a second time for the same event id.
C4_Witness ==
    /\ AfterSync
    /\ hist.consecutive
    /\ now = 0
    /\ Cardinality(jobs) = NumEvents

\* C5: a sync that follows a sync, with no change of the remote events and no
\* job firing in between, leaves a job table with the same set of event ids.
C5_SyncIdempotentOnIds ==
    [][(last'.op = "sync" /\ hist.fresh) => JobIds(jobs') = JobIds(jobs)]_vars

C5_Witness ==
    /\ AfterSync
    /\ hist.consecutive
    /\ now > 0
    /\ \E j \in jobs : events[j.args].start_time <= now

\* C6: a job that is in the table before a sync, for an event that is deleted or
\* no longer eligible in the snapshot of that sync, is not in the table after
\* it, and the scheduler never runs the job of such an event afterwards (until
\* a later sync finds the event eligible again and schedules it anew).
C6_StaleJobsCancelled ==
    [][/\ last'.op = "sync" =>
            \A j \in jobs : ~EligibleEvent(j.args) => JobsFor(jobs', j.args) = {}
       /\ \A j \in jobs : Fire(j) => j.args \notin hist.stale]_vars

C6_Witness ==
    /\ AfterSync
    /\ hist.stale # {}
    /\ \E e \in hist.stale : ~events[e].present
    /\ jobs # {}

\* C7: sync() returns the number of jobs in the job table when it returns; with
\* one eligible Voice event and one External Scheduled event it returns 1 and
\* the table's one job is the Voice event's.
ListedIds == {e \in EventIds : Listed(e)}

C7_CountIsTableSize ==
    AfterSync =>
        /\ last.count = Cardinality(jobs)
        /\ \A a, b \in EventIds :
              (/\ ListedIds = {a, b}
               /\ events[a].entity_type = "voice" /\ events[a].status = "scheduled"
               /\ events[b].entity_type = "external" /\ events[b].status = "scheduled")
              => last.count = 1 /\ JobIds(jobs) = {a}

C7_Witness ==
    /\ AfterSync
    /\ last.count = 1
    /\ \E a, b \in EventIds :
          /\ ListedIds = {a, b}
          /\ events[a].entity_type = "voice" /\ events[a].status = "scheduled"
          /\ events[b].entity_type = "external" /\ events[b].status = "scheduled"

\* C8: when add_job raises for some eligible events during a sync, the sync goes
\* on: every other eligible event, before or after a failing one, has its job,
\* the failing ones have none, and the count returned leaves them out.
C8_FailureDoesNotAbortSync ==
    AfterSync =>
        /\ \A e \in EventIds :
              (EligibleEvent(e) /\ e \notin last.failed) =>
                  Cardinality(JobsFor(jobs, e)) = 1
        /\ \A e \in last.failed : JobsFor(jobs, e) = {}
        /\ last.count = Cardinality({e \in EventIds :
                                        EligibleEvent(e) /\ e \notin last.failed})

\* add_job raised for the first eligible event, and the one after it has its job.
C8_Witness ==
    /\ AfterSync
    /\ \E e, f \in EventIds :
          /\ e < f
          /\ EligibleEvent(e) /\ e \in last.failed
          /\ EligibleEvent(f) /\ JobsFor(jobs, f) # {}
    /\ last.count = 1

\* C9: within one run of start_voice_event, event.start() is called only after
\* every event.end() of its conflict resolution has been called and has
\* returned or raised: no end call follows or is pending at the start call.
StartBeforeEnd(calls) ==
    \E i, k \in 1..Len(calls) : i < k /\ calls[i][1] = "start" /\ calls[k][1] = "end"

StartCalled(calls) == \E i \in 1..Len(calls) : calls[i][1] = "start"

C9_EndBeforeStart ==
    \A c \in InFlight :
        /\ ~StartBeforeEnd(c.calls)
        /\ StartCalled(c.calls) => c.pc = "starting"

\* Event B's coroutine awaits event.start() after it ended the active event A
\* of the same channel.
C9_Witness ==
    \E c \in InFlight :
        /\ c.pc = "starting"
        /\ Len(c.calls) = 2
        /\ c.calls[1][1] = "end" /\ c.calls[1][2] # c.id
        /\ events[c.calls[1][2]].channel = events[c.id].channel
        /\ c.calls[2] = <<"start", c.id>>

\* C10: when start_voice_event runs and the guild or the event is not found, it
\* calls neither event.end() nor event.start() (it has returned, so it awaits no
\* call), leaves the job table and the events as they are, and returns normally.
C10_NotFoundIsNoOp ==
    [][\A c \in InFlight :
          (Begin(c) /\ (~guild \/ ~events[c.id].present)) =>
              /\ jobs' = jobs
              /\ events' = events
              /\ inv' = inv (-) SetToBag({c})
              /\ last'.outcome = "SkippedNotFound"]_vars

C10_Witness ==
    /\ last.op = "begin"
    /\ last.outcome = "SkippedNotFound"
    /\ last.origin = "job"
    /\ ~events[last.id].present

\* C11: when start_voice_event finds the event and its status is already active,
\* it calls neither event.end() nor event.start() (it has returned, so it awaits
\* no call), changes nothing and returns normally.
C11_AlreadyActiveIsNoOp ==
    [][\A c \in InFlight :
          (Begin(c) /\ guild /\ events[c.id].present
                    /\ events[c.id].status = "active") =>
              /\ jobs' = jobs
              /\ events' = events
              /\ inv' = inv (-) SetToBag({c})
              /\ last'.outcome = "SkippedAlreadyActive"]_vars

\* The job of an event fires after a user started the event by hand.
C11_Witness ==
    /\ last.op = "begin"
    /\ last.outcome = "SkippedAlreadyActive"
    /\ last.origin = "job"
    /\ guild /\ events[last.id].present
    /\ events[last.id].status = "active"

\* C12: when event.start() raises in start_voice_event (Forbidden, HTTPException
\* or any other exception), the coroutine logs and returns normally; the step
\* adds no job and no coroutine and issues no further call, so nothing is left
\* that would call event.start() for the event again; the jobs of the other
\* events stay in the job store, and the scheduler can still run each of them
\* that is due.
FailedOutcomes == {"FailedPermission", "FailedRemote", "FailedUnexpected"}

C12_StartFailureContained ==
    [][last'.op = "start_returned" =>
          \A c \in InFlight, r \in CallResults \ {"ok"} :
              StartReturns(c, r) =>
                  /\ jobs' = jobs
                  /\ events' = events
                  /\ inv' = inv (-) SetToBag({c})
                  /\ last'.id = c.id
                  /\ last'.outcome \in FailedOutcomes
                  /\ \A j \in jobs' :
                        j.run_date <= now' => (ENABLED Fire(j))']_vars

\* The job of one event ran and its event.start() was refused; the job of
\* another event is still in the job store.
C12_Witness ==
    /\ last.op = "start_returned"
    /\ last.outcome = "FailedPermission"
    /\ last.origin = "job"
    /\ JobsFor(jobs, last.id) = {}
    /\ \E j \in jobs : j.args # last.id

\* C13: in end_conflicting_voice_events, an event.end() that raises does not end
\* the loop: the next event of the loop that is active, voice or stage, and in
\* the channel has event.end() called on it, and when none is left
\* start_voice_event goes on to call event.start() on the event it starts.
ConflictsLeft(c) ==
    {i \in 1..Len(c.todo) :
        /\ events[c.todo[i]].status = "active"
        /\ events[c.todo[i]].entity_type \in {"voice", "stage_instance"}
        /\ events[c.todo[i]].channel = c.channel}

C13_EndFailureDoesNotStopLoop ==
    [][\A c \in InFlight : c.pc = "ending" =>
        \A r \in CallResults \ {"ok"} :
          EndReturns(c, r) =>
              /\ events' = events
              /\ \E d \in BagToSet(inv') :
                    /\ d.id = c.id /\ d.origin = c.origin
                    /\ IF ConflictsLeft(c) = {}
                       THEN /\ d.pc = "starting"
                            /\ d.calls = Append(c.calls, <<"start", c.id>>)
                       ELSE \E i \in ConflictsLeft(c) :
                            /\ \A k \in ConflictsLeft(c) : i <= k
                            /\ d.pc = "ending"
                            /\ d.cur = c.todo[i]
                            /\ d.calls = Append(c.calls, <<"end", c.todo[i]>>)]_vars

\* A coroutine awaits event.start() after two calls of event.end(), the first
\* of which raised: the event it was called on is still active.
C13_Witness ==
    \E c \in InFlight :
        /\ c.pc = "starting"
        /\ Len(c.calls) = 3
        /\ c.calls[1][1] = "end" /\ events[c.calls[1][2]].status = "active"
        /\ c.calls[2][1] = "end" /\ c.calls[2][2] # c.calls[1][2]
        /\ c.calls[3] = <<"start", c.id>>

\* C14: when a start begun by the start_event command fails (the event is not
\* found, or event.start() raises Forbidden or HTTPException), the command
\* replies with a failure message, not with a success message; a text that is
\* not an integer is answered with the invalid-id message.
FailureReplies == {"Invalid event ID format", "Error starting event"}

C14_ManualFailureSurfaced ==
    /\ (/\ last.origin = "manual"
        /\ last.outcome \in {"SkippedNotFound", "FailedPermission", "FailedRemote"})
           => last.reply \in FailureReplies
    /\ last.op = "start_event_command" => last.reply = "Invalid event ID format"

\* C15: bot_status_command reports the number of jobs in the job store; with no
\* job it reports 0 and no next run time, and with at least one job the next
\* run time it reports is the least run date of the jobs in the store.
C15_StatusReportsJobs ==
    last.op = "bot_status" =>
        /\ last.count = Cardinality(jobs)
        /\ jobs = {} => last.count = 0 /\ last.next_run_time = NoTime
        /\ jobs # {} =>
              /\ \E j \in jobs : j.run_date = last.next_run_time
              /\ \A j \in jobs : last.next_run_time <= j.run_date

\* The status of a job store with two jobs of different run dates.
C15_Witness ==
    /\ last.op = "bot_status"
    /\ last.count = 2
    /\ \E j \in jobs : j.run_date > last.next_run_time

\* C16 as stated: every start_voice_event, once begun, runs to its end and ends
\* in one of Started, SkippedAlreadyActive, SkippedNotFound, FailedPermission,
\* FailedRemote (every call awaited returning or raising in the end); a sync
\* that clears the job store does not cancel it.
FinishingOps == {"begin", "end_returned", "start_returned"}

\* One step: a sync leaves the coroutines in flight alone, and a coroutine
\* leaves only by returning, with one of the outcomes.
RunsToEnd(outcomes) ==
    /\ last'.op = "sync" => inv' = inv
    /\ (BagCardinality(inv') < BagCardinality(inv)) =>
          /\ BagCardinality(inv') = BagCardinality(inv) - 1
          /\ last'.op \in FinishingOps
          /\ last'.outcome \in outcomes

C16_FiveOutcomes ==
    /\ [][RunsToEnd({"Started", "SkippedAlreadyActive", "SkippedNotFound",
                     "FailedPermission", "FailedRemote"})]_vars
    /\ (inv # EmptyBag) ~> (inv = EmptyBag)

\* C16 as amended: the same with a sixth outcome, FailedUnexpected, for an
\* event.start() that raises an exception that is neither Forbidden nor
\* HTTPException.
C16_SixOutcomes ==
    /\ [][RunsToEnd({"Started", "SkippedAlreadyActive", "SkippedNotFound",
                     "FailedPermission", "FailedRemote",
                     "FailedUnexpected"})]_vars
    /\ (inv # EmptyBag) ~> (inv = EmptyBag)

\* A sync has run while the coroutine of a job awaits a call on the platform,
\* and has added a job for the same event again.
C16_Witness ==
    /\ AfterSync
    /\ \E c \in InFlight :
          /\ c.pc \in {"ending", "starting"}
          /\ c.origin = "job"
          /\ JobsFor(jobs, c.id) # {}

\* C17: at any time at most one start_voice_event coroutine per event id is
\* suspended on a call to the platform, whatever the interleaving of jobs
\* running, start_event commands and syncs.
Suspended(e) == {c \in InFlight : c.id = e /\ c.pc \in {"ending", "starting"}}

C17_OneInFlightPerEvent ==
    \A e \in EventIds :
        /\ Cardinality(Suspended(e)) <= 1
        /\ \A c \in Suspended(e) : CopiesIn(c, inv) = 1

\* C18: the guild having at most one active voice or stage event per channel at
\* first, nobody but the bot changing the events and no event.end() raising,
\* whenever no start_voice_event coroutine is in flight there is at most one
\* active voice or stage event per channel.
C18_OneActivePerChannel == inv = EmptyBag => OneActivePerChannel

\* C19: event.start() is never called on an event that is active when it is
\* called, nor while another coroutine's event.start() for the same event is
\* awaited, whatever the interleaving of the coroutine of a job and the one of
\* a start_event command for the same event.
CallsStart(c) ==
    \/ Begin(c) /\ start_voice_event(c).pc = "starting"
    \/ \E r \in CallResults :
          EndReturns(c, r) /\ ConflictLoop(c, c.todo)'.pc = "starting"

C19_StartOnlyOnceAndNotOnActive ==
    [][\A c \in InFlight :
          CallsStart(c) =>
              /\ events'[c.id].status # "active"
              /\ \A d \in InFlight : ~(d.id = c.id /\ d.pc = "starting")]_vars

\* C20: an event that a sync has scheduled and that stays eligible (listed,
\* scheduled, voice or stage) has start_voice_event begun for it by its job in
\* the end, however often sync_voice_events runs, also when a past-due event
\* is synced again and again less than 60 seconds apart.
Invoked(e) == \E c \in InFlight : c.id = e /\ c.origin = "job"

C20_EligibleEventEventuallyStarted ==
    \A e \in EventIds :
        (JobsFor(jobs, e) # {}) ~> (~EligibleEvent(e) \/ Invoked(e))
====
